---- MODULE Spec2Model ----
(***************************************************************************)
(* A model of the callback registry of src/src/lib.rs: CallbackManager,    *)
(* its weakly held handler slots (Weak<Mutex<CallbackHandler>>) and the    *)
(* batch dispatch run_all.                                                 *)
(*                                                                         *)
(* A slot is an Arc<Mutex<CallbackHandler>>: it has a strong count (the    *)
(* handles held by callers), the variant of the handler it holds (its      *)
(* arity) and the poison flag of its mutex.  The registry holds the slots  *)
(* weakly, in registration order.  run_all is modelled step by step,       *)
(* because callers on other threads (or handler bodies) may drop their     *)
(* strong handles while it runs; add and active_count borrow the registry  *)
(* and so never overlap a run_all.                                         *)
(***************************************************************************)
EXTENDS Integers, Sequences, FiniteSets, TLC

\* Bounds of the model.
MaxSlots == 3    \* number of add calls explored
MaxArity == 1    \* arities 0..MaxArity are explored (the source has 0..12)
MaxVal == 2      \* values of the element type T are 1..MaxVal
MaxStrong == 2   \* strong handles a caller holds on one slot (Arc::clone)

Slots == 1..MaxSlots
Arities == 0..MaxArity
Values == 1..MaxVal
MaxBatch == MaxSlots

\* A parameter list CallParamsN(p1, .., pN) is the sequence of its N values.
CallbackParams == UNION {[1..n -> Values] : n \in Arities}

\* The batches run_all is called with.
Batches == UNION {[1..k -> CallbackParams] : k \in 0..MaxBatch}

\* The errors of try_match_params (the number of mismatching positions that
\* the second one formats is the variable mism).
MatchErrors ==
    {"mismatched param counts to active handlers", "mismatching params"}

\* The value active_count has not returned.
NoCount == -1

VARIABLES
    handlers,   \* CallbackManager.handlers: the weak handles, as slot ids
    created,    \* number of slots ever allocated by add
    arity,      \* arity[s]: the variant CallbackN held in slot s
    strong,     \* strong[s]: strong handles callers hold on slot s
    poisoned,   \* poisoned[s]: the mutex of slot s is poisoned
    extLock,    \* slot whose mutex a caller holds, 0 if none
    pc,         \* position of the run_all in progress, "idle" if none
    params,     \* run_all's argument
    idx,        \* position of run_all's current loop, from 1
    mism,       \* mismatching positions counted so far by try_match_params
    invoked,    \* handler bodies entered by this run_all: <<slot, values>>
    result,     \* what run_all returned
    prev,       \* the call just before this run_all was a run_all that
                \* returned one of try_match_params' errors
    count,      \* what the last active_count returned, NoCount if stale
    dropDuring  \* a strong handle was dropped since this run_all began
                \* (until the caller takes its result)

vars == <<handlers, created, arity, strong, poisoned, extLock, pc, params,
          idx, mism, invoked, result, prev, count, dropDuring>>

slotVars == <<arity, strong, poisoned, extLock>>
runVars == <<pc, params, idx, mism, invoked, result, prev>>

\* The registry's own temporary Arc: run_all holds the upgraded handle (and
\* the mutex guard) of the slot whose body it is running.
RegHolds(s) == pc = "body" /\ handlers[idx] = s

\* A registry that owns its slots: every stored handle upgrades.
UpgradeOwned(s) == s <= created

\* Weak::upgrade: Some iff the strong count is not zero.
Upgrade(s) == strong[s] > 0 \/ RegHolds(s)

\* CallbackManager::new: an empty registry; no slot of S is allocated yet.
InitOn(S) ==
    /\ handlers = <<>>
    /\ created = 0
    /\ arity = [s \in S |-> 0]
    /\ strong = [s \in S |-> 0]
    /\ poisoned = [s \in S |-> FALSE]
    /\ extLock = 0
    /\ pc = "idle"
    /\ params = <<>>
    /\ idx = 0
    /\ mism = 0
    /\ invoked = <<>>
    /\ result = "none"
    /\ prev = FALSE
    /\ count = NoCount
    /\ dropDuring = FALSE

Init == InitOn(Slots)

\* A filter with its test inverted: it keeps the dead entries.
RECURSIVE FilterInverted(_, _)
FilterInverted(h, i) ==
    IF i > Len(h) THEN <<>>
    ELSE IF ~Upgrade(h[i]) THEN <<h[i]>> \o FilterInverted(h, i + 1)
    ELSE FilterInverted(h, i + 1)

\* A filter that keeps the live entries but in the reverse order.
RECURSIVE FilterReversed(_, _)
FilterReversed(h, i) ==
    IF i > Len(h) THEN <<>>
    ELSE IF Upgrade(h[i]) THEN FilterReversed(h, i + 1) \o <<h[i]>>
    ELSE FilterReversed(h, i + 1)

\* drop_inactive: the filter keeping the weak handles that upgrade.
RECURSIVE Filter(_, _)
Filter(h, i) ==
    IF i > Len(h) THEN <<>>
    ELSE IF Upgrade(h[i]) THEN <<h[i]>> \o Filter(h, i + 1)
    ELSE Filter(h, i + 1)

\* A run_all that does not prune.
KeepInactive == handlers

drop_inactive == Filter(handlers, 1)

\* An add that prunes the dead entries before it appends.
AddPruning(a, keep) ==
    /\ pc = "idle"
    /\ created' = created + 1
    /\ handlers' = Append(drop_inactive, created + 1)
    /\ strong' = [strong EXCEPT ![created + 1] = IF keep THEN 1 ELSE 0]
    /\ arity' = [arity EXCEPT ![created + 1] = IF keep THEN a ELSE 0]
    /\ count' = NoCount
    /\ result' = "none"
    /\ UNCHANGED <<poisoned, extLock, pc, params, idx, mism, invoked, prev,
                   dropDuring>>

\* CallbackManager::add.  The caller keeps the returned Arc or discards it
\* at once (as the doc example does); a slot nobody holds is deallocated.
Add(a, keep) ==
    /\ pc = "idle"
    /\ created' = created + 1
    /\ handlers' = Append(handlers, created + 1)
    /\ strong' = [strong EXCEPT ![created + 1] = IF keep THEN 1 ELSE 0]
    /\ arity' = [arity EXCEPT ![created + 1] = IF keep THEN a ELSE 0]
    /\ count' = NoCount
    /\ result' = "none"
    /\ UNCHANGED <<poisoned, extLock, pc, params, idx, mism, invoked, prev,
                   dropDuring>>

\* An active_count that counts the stored entries, dead ones included.
StoredCount(h, i, r) == Len(h)

\* active_count: the loop over the weak handles, counting the upgrades.
RECURSIVE CountFrom(_, _, _)
CountFrom(h, i, r) ==
    IF i > Len(h) THEN r
    ELSE CountFrom(h, i + 1, IF Upgrade(h[i]) THEN r + 1 ELSE r)

active_count == CountFrom(handlers, 1, 0)

\* An active_count that prunes the dead entries while it counts.
ActiveCountPruning ==
    /\ pc = "idle"
    /\ count' = active_count
    /\ handlers' = drop_inactive
    /\ result' = "none"
    /\ UNCHANGED <<created, slotVars, pc, params, idx, mism, invoked, prev,
                   dropDuring>>

ActiveCount ==
    /\ pc = "idle"
    /\ count' = active_count
    /\ result' = "none"
    /\ UNCHANGED <<handlers, created, slotVars, pc, params, idx, mism,
                   invoked, prev, dropDuring>>

\* A caller drops one of its strong handles of slot s, at any time: from
\* another thread, or from the body of the handler run_all is running.  The
\* slot is deallocated with its last Arc, the registry's temporary included.
DropHandle(s) ==
    /\ strong[s] > 0
    /\ extLock # s \/ strong[s] > 1
    /\ strong' = [strong EXCEPT ![s] = @ - 1]
    /\ LET freed == strong[s] = 1 /\ ~RegHolds(s)
       IN /\ arity' = IF freed THEN [arity EXCEPT ![s] = 0] ELSE arity
          /\ poisoned' = IF freed THEN [poisoned EXCEPT ![s] = FALSE]
                         ELSE poisoned
    /\ dropDuring' = (dropDuring \/ pc # "idle")
    /\ count' = NoCount
    /\ result' = IF pc = "idle" THEN "none" ELSE result
    /\ UNCHANGED <<handlers, created, extLock, pc, params, idx, mism, invoked,
                   prev>>

\* A caller clones a strong handle it holds (Arc::clone).
CloneHandle(s) ==
    /\ strong[s] > 0
    /\ strong[s] < MaxStrong
    /\ strong' = [strong EXCEPT ![s] = @ + 1]
    /\ UNCHANGED <<handlers, created, arity, poisoned, extLock, runVars, count,
                   dropDuring>>

\* run_all, line 250: drop_inactive, on entry.
RunAllBegin(batch) ==
    /\ pc = "idle"
    /\ handlers' = drop_inactive
    /\ params' = batch
    /\ pc' = "count"
    /\ prev' = (result \in MatchErrors)
    /\ result' = "none"
    /\ dropDuring' = FALSE
    /\ count' = NoCount
    /\ UNCHANGED <<created, slotVars, idx, mism, invoked>>

\* A count check that rejects only the batches that are too long.
CountCheckTooLong ==
    /\ pc = "count"
    /\ IF Len(params) > active_count
       THEN /\ result' = "mismatched param counts to active handlers"
            /\ pc' = "done"
            /\ UNCHANGED <<idx, mism>>
       ELSE /\ pc' = "match"
            /\ idx' = 1
            /\ mism' = 0
            /\ UNCHANGED result
    /\ UNCHANGED <<handlers, created, slotVars, params, invoked, prev, count,
                   dropDuring>>

\* A count check against the length of the stored sequence.
CountCheckStored ==
    /\ pc = "count"
    /\ IF Len(params) # Len(handlers)
       THEN /\ result' = "mismatched param counts to active handlers"
            /\ pc' = "done"
            /\ UNCHANGED <<idx, mism>>
       ELSE /\ pc' = "match"
            /\ idx' = 1
            /\ mism' = 0
            /\ UNCHANGED result
    /\ UNCHANGED <<handlers, created, slotVars, params, invoked, prev, count,
                   dropDuring>>

\* try_match_params, lines 115-117: the count check.
CountCheck ==
    /\ pc = "count"
    /\ IF Len(params) # active_count
       THEN /\ result' = "mismatched param counts to active handlers"
            /\ pc' = "done"
            /\ UNCHANGED <<idx, mism>>
       ELSE /\ pc' = "match"
            /\ idx' = 1
            /\ mism' = 0
            /\ UNCHANGED result
    /\ UNCHANGED <<handlers, created, slotVars, params, invoked, prev, count,
                   dropDuring>>

\* params.get(i) matched against CallParamsN: the arity of the i-th
\* parameter list, -1 for None.
ParamArity(i) == IF i <= Len(params) THEN Len(params[i]) ELSE -1

\* A run_all that hands every handler the first parameter list.
ArgsOfFirst(i) == params[1]

\* The values p1, .., pN that params.get(index) binds in run_all.
Args(i) == params[i]

\* A filter's predicate that looks into a poisoned mutex all the same.
MismatchingIgnorePoison(i) ==
    IF Upgrade(handlers[i])
    THEN arity[handlers[i]] # ParamArity(i)
    ELSE TRUE

\* try_match_params, lines 120-221: the filter's predicate at position i.
Mismatching(i) ==
    IF Upgrade(handlers[i])
    THEN IF ~poisoned[handlers[i]]
         THEN arity[handlers[i]] # ParamArity(i)
         ELSE TRUE
    ELSE TRUE

\* A try_match_params that reports the first mismatch only.
MatchStepFirstOnly ==
    /\ pc = "match"
    /\ idx <= Len(handlers)
    /\ Upgrade(handlers[idx]) => extLock # handlers[idx]
    /\ mism' = IF Mismatching(idx) /\ mism = 0 THEN 1 ELSE mism
    /\ idx' = idx + 1
    /\ UNCHANGED <<handlers, created, slotVars, pc, params, invoked, result,
                   prev, count, dropDuring>>

\* A shape check that reads the handler without taking the slot's mutex.
MatchStepNoWait ==
    /\ pc = "match"
    /\ idx <= Len(handlers)
    /\ mism' = IF Mismatching(idx) THEN mism + 1 ELSE mism
    /\ idx' = idx + 1
    /\ UNCHANGED <<handlers, created, slotVars, pc, params, invoked, result,
                   prev, count, dropDuring>>

\* One turn of the filter of try_match_params; it takes the slot's mutex,
\* so it waits while a caller holds it.
MatchStep ==
    /\ pc = "match"
    /\ idx <= Len(handlers)
    /\ Upgrade(handlers[idx]) => extLock # handlers[idx]
    /\ mism' = IF Mismatching(idx) THEN mism + 1 ELSE mism
    /\ idx' = idx + 1
    /\ UNCHANGED <<handlers, created, slotVars, pc, params, invoked, result,
                   prev, count, dropDuring>>

\* try_match_params, lines 224-228, and the ? of line 252.
MatchEnd ==
    /\ pc = "match"
    /\ idx > Len(handlers)
    /\ IF mism > 0
       THEN /\ result' = "mismatching params"
            /\ pc' = "done"
            /\ UNCHANGED idx
       ELSE /\ pc' = "invoke"
            /\ idx' = 1
            /\ UNCHANGED result
    /\ UNCHANGED <<handlers, created, slotVars, params, mism, invoked, prev,
                   count, dropDuring>>

\* run_all returns Err(err) from inside its loop.
Abort(err) ==
    /\ result' = err
    /\ pc' = "done"
    /\ UNCHANGED <<invoked, idx>>

\* A loop that passes over a handler it finds dropped.
SkipDropped ==
    /\ idx' = idx + 1
    /\ UNCHANGED <<invoked, result, pc>>

\* run_all, lines 353-355: the weak handle does not upgrade.
DroppedAtInvoke == Abort("unexpected dropped handler")

\* Variants of the loop's turn: one that takes no lock, one that calls the
\* handler of a poisoned mutex, one that does not match the handler's
\* variant against the parameter list.
TurnWith(locks, minds, matches) ==
    /\ pc = "invoke"
    /\ idx <= Len(handlers)
    /\ LET s == handlers[idx]
       IN IF ~Upgrade(s)
          THEN Abort("unexpected dropped handler")
          ELSE /\ locks => extLock # s
               /\ IF minds /\ poisoned[s]
                  THEN Abort("retreiving mutex guard of handler failure")
                  ELSE IF matches /\ arity[s] # ParamArity(idx)
                  THEN Abort("unexpected mismatching param")
                  ELSE /\ invoked' = Append(invoked, <<s, Args(idx)>>)
                       /\ pc' = "body"
                       /\ UNCHANGED <<result, idx>>
    /\ UNCHANGED <<handlers, created, slotVars, params, mism, prev, count,
                   dropDuring>>

InvokeStartNoLock == TurnWith(FALSE, TRUE, TRUE)
InvokeStartPoisoned == TurnWith(TRUE, FALSE, TRUE)
InvokeStartUnmatched == TurnWith(TRUE, TRUE, FALSE)

\* run_all, lines 254-355: one turn of the loop up to the call of the body.
\* It takes the slot's mutex, so it waits while a caller holds it.
InvokeStart ==
    /\ pc = "invoke"
    /\ idx <= Len(handlers)
    /\ LET s == handlers[idx]
       IN IF ~Upgrade(s)
          THEN DroppedAtInvoke
          ELSE /\ extLock # s
               /\ IF poisoned[s]
                  THEN Abort("retreiving mutex guard of handler failure")
                  ELSE IF arity[s] # ParamArity(idx)
                  THEN Abort("unexpected mismatching param")
                  ELSE /\ invoked' = Append(invoked, <<s, Args(idx)>>)
                       /\ pc' = "body"
                       /\ UNCHANGED <<result, idx>>
    /\ UNCHANGED <<handlers, created, slotVars, params, mism, prev, count,
                   dropDuring>>

\* A release after which the contents of a slot nobody holds stay around.
ReleaseKept(s, poison) ==
    /\ arity' = arity
    /\ poisoned' = [poisoned EXCEPT ![s] = poison \/ @]

\* The registry's temporary Arc and the guard go out of scope: the slot is
\* deallocated if no caller holds it any more.
Release(s, poison) ==
    IF strong[s] = 0
    THEN /\ arity' = [arity EXCEPT ![s] = 0]
         /\ poisoned' = [poisoned EXCEPT ![s] = FALSE]
    ELSE /\ arity' = arity
         /\ poisoned' = [poisoned EXCEPT ![s] = poison \/ @]

\* A loop that does not move on to the next handler.
BodyReturnAgain ==
    /\ pc = "body"
    /\ Release(handlers[idx], FALSE)
    /\ pc' = "invoke"
    /\ UNCHANGED <<handlers, created, strong, extLock, params, idx, mism,
                   invoked, result, prev, count, dropDuring>>

\* The handler body returns; the loop goes on.
BodyReturn ==
    /\ pc = "body"
    /\ Release(handlers[idx], FALSE)
    /\ idx' = idx + 1
    /\ pc' = "invoke"
    /\ UNCHANGED <<handlers, created, strong, extLock, params, mism, invoked,
                   result, prev, count, dropDuring>>

\* A run_all that catches the panic of a body and returns an error for it.
BodyPanicCaught ==
    /\ pc = "body"
    /\ Release(handlers[idx], TRUE)
    /\ result' = "retreiving mutex guard of handler failure"
    /\ pc' = "done"
    /\ UNCHANGED <<handlers, created, strong, extLock, params, idx, mism,
                   invoked, prev, count, dropDuring>>

\* The handler body panics: the guard is dropped during the unwinding,
\* which poisons the mutex, and the panic leaves run_all.
BodyPanic ==
    /\ pc = "body"
    /\ Release(handlers[idx], TRUE)
    /\ result' = "panic"
    /\ pc' = "done"
    /\ UNCHANGED <<handlers, created, strong, extLock, params, idx, mism,
                   invoked, prev, count, dropDuring>>

\* run_all, line 358.
InvokeEnd ==
    /\ pc = "invoke"
    /\ idx > Len(handlers)
    /\ result' = "Ok"
    /\ pc' = "done"
    /\ UNCHANGED <<handlers, created, slotVars, params, idx, mism, invoked,
                   prev, count, dropDuring>>

\* The caller has the result; the registry is free for the next call.
Return ==
    /\ pc = "done"
    /\ pc' = "idle"
    /\ params' = <<>>
    /\ idx' = 0
    /\ mism' = 0
    /\ invoked' = <<>>
    /\ prev' = FALSE
    /\ dropDuring' = FALSE
    /\ UNCHANGED <<handlers, created, slotVars, result, count>>

Next ==
    \/ \E a \in Arities, keep \in BOOLEAN : created < MaxSlots /\ Add(a, keep)
    \/ ActiveCount
    \/ \E s \in Slots : DropHandle(s)
    \/ \E s \in Slots : CloneHandle(s)
    \/ \E batch \in Batches : RunAllBegin(batch)
    \/ CountCheck
    \/ MatchStep
    \/ MatchEnd
    \/ InvokeStart
    \/ BodyReturn
    \/ BodyPanic
    \/ InvokeEnd
    \/ Return

Spec == Init /\ [][Next]_vars

(***************************************************************************)
(* The owner of a strong handle uses its slot directly, from another       *)
(* thread and at any time: it locks the mutex of the Arc<Mutex<..>> that   *)
(* add returned, and under the guard it calls the handler, which returns   *)
(* or panics, or stores a handler of another variant.  One such thread is  *)
(* modelled.                                                               *)
(***************************************************************************)

\* mutex.lock() by the owner: it waits while run_all holds the guard, and
\* gets no guard from a poisoned mutex.
OwnerLock(s) ==
    /\ extLock = 0
    /\ strong[s] > 0
    /\ ~RegHolds(s)
    /\ ~poisoned[s]
    /\ extLock' = s
    /\ UNCHANGED <<handlers, created, arity, strong, poisoned, runVars, count,
                   dropDuring>>

\* *guard = CallbackHandler::CallbackN(..): the owner replaces the handler.
OwnerReplace(a) ==
    /\ extLock # 0
    /\ arity[extLock] # a
    /\ arity' = [arity EXCEPT ![extLock] = a]
    /\ UNCHANGED <<handlers, created, strong, poisoned, extLock, runVars, count,
                   dropDuring>>

\* The owner's guard goes out of scope.
OwnerUnlock ==
    /\ extLock # 0
    /\ extLock' = 0
    /\ UNCHANGED <<handlers, created, arity, strong, poisoned, runVars, count,
                   dropDuring>>

\* The handler the owner called panics: the guard is dropped during the
\* unwinding, which poisons the mutex.
OwnerPanic ==
    /\ extLock # 0
    /\ poisoned' = [poisoned EXCEPT ![extLock] = TRUE]
    /\ extLock' = 0
    /\ UNCHANGED <<handlers, created, arity, strong, runVars, count,
                   dropDuring>>

NextOwner ==
    \/ \E a \in Arities, keep \in BOOLEAN : created < MaxSlots /\ Add(a, keep)
    \/ \E s \in Slots : DropHandle(s)
    \/ \E s \in Slots : OwnerLock(s)
    \/ \E a \in Arities : OwnerReplace(a)
    \/ OwnerUnlock
    \/ OwnerPanic
    \/ \E batch \in Batches : RunAllBegin(batch)
    \/ CountCheck
    \/ MatchStep
    \/ MatchEnd
    \/ InvokeStart
    \/ BodyReturn
    \/ BodyPanic
    \/ InvokeEnd
    \/ Return

SpecOwner == Init /\ [][NextOwner]_vars

(***************************************************************************)
(* tests::test_callback_manager: five handlers func0 .. func4, of arities  *)
(* 0 to 4, are registered in that order; the handle h3 of func2 goes out   *)
(* of scope at once and the others are kept to the end.  run_all is then   *)
(* called with batches of four or five parameter lists CallParamsN(1, ..,  *)
(* N), as the three calls of the test are.  The bodies push to OUTPUT and  *)
(* do not panic.                                                           *)
(***************************************************************************)
TestHandlers == 5

TestParams(n) == [k \in 1..n |-> k]

TestBatches ==
    UNION {[1..k -> {TestParams(n) : n \in 0..(TestHandlers - 1)}] :
             k \in {TestHandlers - 1, TestHandlers}}

InitTest == InitOn(1..TestHandlers)

TestAdd ==
    /\ created < TestHandlers
    /\ Add(created, created # 2)

TestRunAll ==
    /\ created = TestHandlers
    /\ \E batch \in TestBatches : RunAllBegin(batch)

NextTest ==
    \/ TestAdd
    \/ TestRunAll
    \/ CountCheck
    \/ MatchStep
    \/ MatchEnd
    \/ InvokeStart
    \/ BodyReturn
    \/ InvokeEnd
    \/ Return

SpecTest == InitTest /\ [][NextTest]_vars

(***************************************************************************)
(* The properties.                                                         *)
(***************************************************************************)
Range(f) == {f[i] : i \in DOMAIN f}

\* The slots callers still hold, and the same in registration order.
LiveSlots == {s \in 1..created : strong[s] > 0}
LiveSeq == SelectSeq([s \in 1..created |-> s], LAMBDA s : strong[s] > 0)

CountMismatch == "mismatched param counts to active handlers"
ShapeMismatch == "mismatching params"
Absence == "unexpected dropped handler"

\* The batch has one parameter list per live handler, each of the arity of
\* the handler at its position in registration order.
FullyMatching ==
    /\ Len(params) = Len(LiveSeq)
    /\ \A i \in 1..Len(LiveSeq) : Len(params[i]) = arity[LiveSeq[i]]

\* No live handler's mutex is poisoned by a body that failed.
NoPoison == \A s \in LiveSlots : ~poisoned[s]

\* Every live handler was invoked exactly once, in registration order, with
\* the values of the parameter list at its position.
InvokedAll ==
    invoked = [i \in 1..Len(LiveSeq) |-> <<LiveSeq[i], params[i]>>]

C2_CountMismatch ==
    /\ [][(pc = "count" /\ pc' # "count"
           /\ Len(params) # Cardinality(LiveSlots))
          => (pc' = "done" /\ result' = CountMismatch /\ invoked' = <<>>)]_vars
    /\ [](result = CountMismatch => invoked = <<>>)

\* The five parameter lists of the test against fewer live handlers, here
\* three lists against two.
C2_Witness ==
    /\ pc = "done" /\ result = CountMismatch
    /\ Len(params) = 3 /\ Len(LiveSeq) = 2 /\ invoked = <<>>

\* C4: active_count returns the number of registered handlers of which a
\* caller still holds a strong handle: the k registered less those whose
\* handles were all dropped.
C4_ActiveCount ==
    count # NoCount
    => count = created - Cardinality({s \in 1..created : strong[s] = 0})

\* Three registered, two dropped, no run_all since: the dead entries are
\* still stored and one handler is counted.
C4_Witness ==
    /\ count = 1 /\ created = 3 /\ Len(handlers) = 3
    /\ \E s \in 1..3 : strong[s] = 2

\* C5: a slot whose last strong handle was dropped stays dead, is removed
\* by the next run_all on entry, never comes back into the stored sequence,
\* is invoked by no run_all that does not store it, and is not counted by
\* active_count.
C5_NoResurrection ==
    [][\A s \in 1..created :
        (strong[s] = 0 /\ ~RegHolds(s))
        => /\ strong'[s] = 0
           /\ (pc = "idle" /\ pc' = "count") => s \notin Range(handlers')
           /\ s \notin Range(handlers) => s \notin Range(handlers')
           /\ (s \notin Range(handlers) /\ Len(invoked') > Len(invoked))
              => invoked'[Len(invoked')][1] # s
           /\ count' # NoCount
              => count' <= Cardinality({t \in 1..created' : strong'[t] > 0})
      ]_vars

\* A run_all has invoked a handler registered after a slot that died.
C5_Witness ==
    /\ created = 3 /\ strong[1] = 0 /\ strong[2] = 0
    /\ pc = "body" /\ invoked = <<<<3, <<2>>>>>>

\* The positions of the stored sequence whose handler is live and has
\* another arity than the parameter list at that position (or has none).
ArityDiffers ==
    {i \in 1..Len(handlers) :
        /\ strong[handlers[i]] > 0
        /\ (i > Len(params) \/ arity[handlers[i]] # Len(params[i]))}

\* The positions whose handler is live with a poisoned mutex, and those
\* whose handler is dropped or has a poisoned mutex.
PoisonedLive ==
    {i \in 1..Len(handlers) : strong[handlers[i]] > 0 /\ poisoned[handlers[i]]}
Unusable ==
    {i \in 1..Len(handlers) : strong[handlers[i]] = 0 \/ poisoned[handlers[i]]}

\* C3 as stated: a run_all whose batch passed the count check and has a
\* position whose arity differs from its live handler's fails with the
\* shape-mismatch error, reports exactly the number of positions whose
\* arities differ, and invokes no handler.
C3_Original ==
    (pc = "done" /\ result # CountMismatch /\ ArityDiffers # {})
    => /\ result = ShapeMismatch
       /\ mism = Cardinality(ArityDiffers)
       /\ invoked = <<>>

\* C3, amended: such a run_all fails with the shape-mismatch error and
\* invokes no handler; the number it reports counts every position whose
\* arities differ and also the positions whose handler was dropped or has a
\* poisoned mutex when checked, so it is the number of positions whose
\* arities differ when no handle is dropped during the call and no live
\* handler's mutex is poisoned.
C3_ShapeMismatchCount ==
    (pc = "done" /\ result # CountMismatch /\ ArityDiffers # {})
    => /\ result = ShapeMismatch
       /\ invoked = <<>>
       /\ mism >= Cardinality(ArityDiffers \cup PoisonedLive)
       /\ mism <= Cardinality(ArityDiffers \cup Unusable)
       /\ (~dropDuring /\ NoPoison) => mism = Cardinality(ArityDiffers)

\* Three live handlers, the first matching and the two after it not.
C3_Witness ==
    /\ pc = "done" /\ result = ShapeMismatch /\ ~dropDuring /\ NoPoison
    /\ Len(handlers) = 3 /\ ArityDiffers = {2, 3} /\ mism = 2

\* The arities of the parameter lists of the batch.
BatchArities == [i \in 1..Len(params) |-> Len(params[i])]

\* C6 as stated: in the test's registry (arities 0 to 4 registered, the
\* arity-2 handle dropped), run_all with parameter lists of arities
\* [0, 1, 2, 4] fails with the shape-mismatch error reporting 2 positions.
C6_Original ==
    (pc = "done" /\ BatchArities = <<0, 1, 2, 4>>)
    => (result = ShapeMismatch /\ mism = 2)

\* C6, amended: that call fails with the shape-mismatch error reporting 1
\* position (the third, where the arity-3 handler meets an arity-2 list;
\* the fourth list has the arity 4 of the fourth live handler), and invokes
\* nothing; the batch that reports 2 positions is the test's, of arities
\* [0, 2, 2, 4].
C6_ScenarioReportsOne ==
    /\ (pc = "done" /\ BatchArities = <<0, 1, 2, 4>>)
       => (result = ShapeMismatch /\ mism = 1 /\ invoked = <<>>)
    /\ (pc = "done" /\ BatchArities = <<0, 2, 2, 4>>)
       => (result = ShapeMismatch /\ mism = 2 /\ invoked = <<>>)

\* The call of the scenario has returned, on the four live handlers.
C6_Witness ==
    /\ pc = "done" /\ BatchArities = <<0, 1, 2, 4>>
    /\ created = 5 /\ LiveSeq = <<1, 2, 4, 5>>
    /\ [i \in 1..4 |-> arity[handlers[i]]] = <<0, 1, 3, 4>>

\* C7 as stated: after a run_all that failed with one of the two mismatch
\* errors, the stored live handlers are those callers hold, in registration
\* order, and the run_all that follows at once with a fully matching batch
\* returns Ok having invoked all of them.
C7_Original ==
    /\ (pc = "done" /\ result \in MatchErrors)
       => SelectSeq(handlers, LAMBDA s : strong[s] > 0) = LiveSeq
    /\ (pc = "done" /\ prev /\ result # "panic" /\ ~dropDuring
        /\ FullyMatching)
       => (result = "Ok" /\ InvokedAll)

\* C7, amended: the same, except that the run_all that follows fails with
\* the shape-mismatch error again, reporting the poisoned slots and
\* invoking nothing, when the mutex of a live handler is poisoned.
C7_Continuable ==
    /\ (pc = "done" /\ result \in MatchErrors)
       => /\ SelectSeq(handlers, LAMBDA s : strong[s] > 0) = LiveSeq
          /\ invoked = <<>>
    /\ (pc = "done" /\ prev /\ result # "panic" /\ ~dropDuring
        /\ FullyMatching)
       => IF NoPoison
          THEN result = "Ok" /\ InvokedAll
          ELSE /\ result = ShapeMismatch
               /\ mism = Cardinality(PoisonedLive)
               /\ invoked = <<>>

\* A run_all that succeeded right after a failed one, on two handlers.
C7_Witness ==
    /\ pc = "done" /\ prev /\ ~dropDuring /\ result = "Ok"
    /\ Len(invoked) = 2 /\ Len(handlers) = 2 /\ created = 3

\* C8: when run_all's invocation loop reaches a handler whose last strong
\* handle was dropped after the validation, it returns the error
\* "unexpected dropped handler" there; the handlers before that position
\* were invoked and stay so, and none at or after it is invoked.
C8_DispatchTimeAbsence ==
    /\ [][(/\ pc = "invoke" /\ strong' = strong
           /\ idx <= Len(handlers) /\ strong[handlers[idx]] = 0)
          => (pc' = "done" /\ result' = Absence /\ invoked' = invoked)]_vars
    /\ []((pc = "done" /\ result = Absence)
          => /\ strong[handlers[idx]] = 0
             /\ invoked = [i \in 1..(idx - 1) |-> <<handlers[i], params[i]>>])

\* The error at the third handler, after two were invoked.
C8_Witness ==
    /\ pc = "done" /\ result = Absence /\ idx = 3 /\ Len(invoked) = 2

\* C9: in every run_all the handlers invoked are the first ones of the
\* stored sequence, in order and each once; a body is entered only after
\* the one before it returned; and whatever ends the call, nothing beyond
\* the position where it ended was invoked.
C9_InvokedPrefix ==
    /\ Len(invoked) <= Len(handlers)
    /\ \A i \in 1..Len(invoked) : invoked[i] = <<handlers[i], params[i]>>
    /\ \A i, j \in 1..Len(invoked) : invoked[i][1] = invoked[j][1] => i = j
    /\ pc \in {"idle", "count", "match"} => invoked = <<>>
    /\ pc = "invoke" => Len(invoked) = idx - 1
    /\ pc = "body" => Len(invoked) = idx
    /\ pc = "done"
       => Len(invoked) = CASE result = "Ok" -> Len(handlers)
                           [] result = "panic" -> idx
                           [] result \in MatchErrors -> 0
                           [] OTHER -> idx - 1

\* A body that failed at the second of three handlers.
C9_Witness ==
    /\ pc = "done" /\ result = "panic"
    /\ Len(handlers) = 3 /\ Len(invoked) = 2

\* C10: add appends one entry, the new slot, at the end of the stored
\* sequence and leaves the entries before it as they were, whether or not
\* the caller keeps the handle it returns.
C10_AddAppends ==
    [][created' # created
       => /\ Len(handlers') = Len(handlers) + 1
          /\ SubSeq(handlers', 1, Len(handlers)) = handlers
          /\ handlers'[Len(handlers')] = created'
          /\ created' = created + 1]_vars

\* Three entries stored, the first dead and the last dead on arrival.
C10_Witness ==
    /\ pc = "idle" /\ Len(handlers) = 3 /\ created = 3
    /\ strong[1] = 0 /\ strong[2] > 0 /\ strong[3] = 0

\* C11: active_count leaves the stored sequence as it is, dead entries
\* included, however often it is called; the stored sequence loses entries
\* only when a run_all begins.
C11_ActiveCountKeepsEntries ==
    /\ [][(pc = "idle" /\ pc' = "idle" /\ count' # NoCount)
          => handlers' = handlers]_vars
    /\ [][Len(handlers') < Len(handlers) => (pc = "idle" /\ pc' = "count")]_vars

\* active_count has returned 0 with two dead entries still stored.
C11_Witness ==
    /\ count = 0 /\ Len(handlers) = 2 /\ pc = "idle"
    /\ strong[1] = 0 /\ strong[2] = 0

MutexFailure == "retreiving mutex guard of handler failure"
ParamMismatch == "unexpected mismatching param"

\* C12 as stated: whatever the owners of the handles do, a run_all that
\* returns (a panic of a handler body is not a value it returns) returns Ok
\* or one of three errors: count mismatch, shape mismatch, dispatch-time
\* absence.
C12_Original ==
    pc = "done"
    => result \in {"Ok", "panic", CountMismatch, ShapeMismatch, Absence}

\* C12, amended: run_all returns one of five errors.  Besides the three, its
\* loop returns "retreiving mutex guard of handler failure" at a live
\* handler whose mutex is poisoned, and "unexpected mismatching param" at a
\* live handler whose arity is not that of its parameter list; both happen
\* when the owner of the handle poisons the mutex or replaces the handler
\* after the shape check passed.
C12_FiveErrors ==
    /\ [](pc = "done"
          => result \in {"Ok", "panic", CountMismatch, ShapeMismatch, Absence,
                         MutexFailure, ParamMismatch})
    /\ [][(/\ pc = "invoke" /\ pc' # "invoke" /\ idx <= Len(handlers)
           /\ strong[handlers[idx]] > 0 /\ poisoned[handlers[idx]])
          => (pc' = "done" /\ result' = MutexFailure /\ invoked' = invoked)]_vars
    /\ [][(/\ pc = "invoke" /\ pc' # "invoke" /\ idx <= Len(handlers)
           /\ strong[handlers[idx]] > 0 /\ ~poisoned[handlers[idx]]
           /\ arity[handlers[idx]] # ParamArity(idx))
          => (pc' = "done" /\ result' = ParamMismatch /\ invoked' = invoked)]_vars

\* The loop has met a poisoned mutex at the second handler.
C12_Witness ==
    /\ pc = "done" /\ result = MutexFailure
    /\ idx = 2 /\ Len(invoked) = 1 /\ poisoned[handlers[2]]


\* C13: when the body of the handler at position idx fails, run_all ends
\* there with the failure itself and not with one of its error values; the
\* handlers at the positions up to idx are the ones invoked, and until the
\* call has returned to its caller no further handler is invoked.
C13_BodyFailurePropagates ==
    /\ [][(pc = "body" /\ pc' = "done")
          => (/\ result' = "panic"
              /\ invoked' = invoked
              /\ Len(invoked) = idx
              /\ \A i \in 1..idx : invoked[i][1] = handlers[i])]_vars
    /\ [][(pc = "done" /\ result = "panic")
          => (invoked' = invoked \/ (pc' = "idle" /\ invoked' = <<>>))]_vars

\* The body of the first of three handlers failed.
C13_Witness ==
    /\ pc = "done" /\ result = "panic"
    /\ idx = 1 /\ Len(handlers) = 3 /\ Len(invoked) = 1


\* C14: the step that begins a run_all leaves in the stored sequence
\* exactly the entries that were live, in the order they had; from then
\* until the call has returned, with Ok, an error or a failed body, the
\* stored sequence stays as the prune left it; and the stored entries are
\* always in registration order.
C14_PruneKeepsLiveInOrder ==
    /\ [][(pc = "idle" /\ pc' = "count")
          => handlers' = SelectSeq(handlers, LAMBDA s : strong[s] > 0)]_vars
    /\ [][pc # "idle" => handlers' = handlers]_vars
    /\ [](\A i, j \in 1..Len(handlers) : i < j => handlers[i] < handlers[j])

\* The prune has removed the second of three entries and kept the others.
C14_Witness ==
    /\ pc = "count" /\ created = 3 /\ handlers = <<1, 3>>
    /\ strong[1] > 0 /\ strong[2] = 0 /\ strong[3] > 0


\* A stored entry whose last handle was dropped since the prune.
DeadStored == {i \in 1..Len(handlers) : strong[handlers[i]] = 0}

\* C15 as stated: with a batch as long as the pruned sequence, a handle
\* dropped after the prune never makes run_all fail with count mismatch:
\* the count check passes and the call ends with shape mismatch.
C15_Original ==
    [][(/\ pc = "count" /\ pc' # "count"
        /\ Len(params) = Len(handlers) /\ DeadStored # {})
       => pc' = "match"]_vars

\* C15, amended: with a batch as long as the pruned sequence, a handle
\* dropped after the prune and before the count check makes run_all fail
\* with count mismatch, because the count check counts the handles that
\* still upgrade; a handle dropped after the count check and before the
\* shape check reaches its position is counted as a mismatching position,
\* and the call then fails with shape mismatch.  Nothing is invoked in
\* either case.
C15_DropAfterPrune ==
    /\ [][(/\ pc = "count" /\ pc' # "count"
           /\ Len(params) = Len(handlers) /\ DeadStored # {})
          => (/\ pc' = "done" /\ result' = CountMismatch
              /\ invoked' = <<>>)]_vars
    /\ [][(/\ pc = "match" /\ idx' = idx + 1 /\ idx \in DeadStored)
          => mism' = mism + 1]_vars
    /\ [][(pc = "match" /\ pc' # "match" /\ mism > 0)
          => (/\ pc' = "done" /\ result' = ShapeMismatch
              /\ invoked' = <<>>)]_vars

\* A shape mismatch whose only mismatching position is a handler dropped
\* during the call: the arities match and no mutex is poisoned.
C15_Witness ==
    /\ pc = "done" /\ result = ShapeMismatch /\ mism = 1
    /\ Len(params) = Len(handlers) /\ Len(handlers) = 2
    /\ DeadStored = {2}
    /\ arity[handlers[1]] = Len(params[1]) /\ ~poisoned[handlers[1]]


\* C16: the body of a handler is never executed by run_all while an owner
\* of its strong handle holds the slot's lock to invoke it, whichever of
\* the two came first: the one that comes second waits for the lock.
C16_OneBodyAtATime ==
    /\ pc = "body" => extLock # handlers[idx]
    /\ (pc = "invoke" /\ idx <= Len(handlers) /\ extLock = handlers[idx])
       => ~ENABLED InvokeStart
    /\ \A s \in Slots : (pc = "body" /\ handlers[idx] = s) => ~ENABLED OwnerLock(s)

\* The loop of run_all has invoked the first handler and now stands at the
\* second, whose lock an owner holds.
C16_Witness ==
    /\ pc = "invoke" /\ idx = 2 /\ Len(handlers) >= 2
    /\ Len(invoked) = 1 /\ extLock = handlers[2]


\* The step run_all can take next, if any, and the live slot it stands at.
RunAllStep ==
    CountCheck \/ MatchStep \/ MatchEnd \/ InvokeStart \/ InvokeEnd
AtHeld ==
    /\ pc \in {"match", "invoke"} /\ idx <= Len(handlers)
    /\ extLock = handlers[idx]

\* C17 as stated: in its count check and its shape check run_all always
\* has a step to take, whoever holds the lock of a live slot.
C17_Original == pc \in {"count", "match"} => ENABLED RunAllStep

\* C17, amended: the prune and the count check never wait for a slot's
\* lock, but the shape check does, as the invocation phase does: each takes
\* the lock of the live slot it stands at, and run_all has no step to take
\* exactly while another execution context holds that lock.
C17_WaitsAtHeldSlot ==
    /\ pc = "count" => ENABLED CountCheck
    /\ pc = "idle" => \A b \in Batches : ENABLED RunAllBegin(b)
    /\ pc \in {"match", "invoke"} => (ENABLED RunAllStep <=> ~AtHeld)

\* The shape check stands at the second slot, whose lock an owner holds.
C17_Witness ==
    /\ pc = "match" /\ idx = 2 /\ Len(handlers) >= 2
    /\ extLock = handlers[2]


\* The slots whose contents only the registry's temporary upgrade keeps.
SoleOwned == {s \in Slots : Upgrade(s) /\ strong[s] = 0}

C19_PoisonedSlotBlocks ==
    /\ [](pc \in {"invoke", "body"} => PoisonedLive = {})
    /\ []((pc = "done" /\ PoisonedLive # {}
           /\ result \notin {"panic", CountMismatch})
          => (result = ShapeMismatch /\ invoked = <<>>))
    /\ [][(pc = "match" /\ idx' = idx + 1 /\ poisoned[handlers[idx]])
          => mism' = mism + 1]_vars
    /\ [][(pc = "idle" /\ pc' = "idle" /\ count' # NoCount)
          => count' = Cardinality({i \in 1..Len(handlers) :
                                      strong[handlers[i]] > 0})]_vars

\* A batch matching every live handler's arity was refused because of one
\* poisoned slot.
C19_Witness ==
    /\ pc = "done" /\ result = ShapeMismatch /\ mism = 1
    /\ FullyMatching /\ Len(handlers) = 2 /\ DeadStored = {}
    /\ Cardinality(PoisonedLive) = 1


\* C20: a handler body run_all executes has the arity of the parameter list
\* it was called with; where the owner of a handle has replaced the handler
\* by one of another arity after the shape check passed, the loop returns
\* "unexpected mismatching param" at that position without invoking the
\* handler, and nothing is invoked after that.
C20_ArityRechecked ==
    /\ [](pc = "body" => arity[handlers[idx]] = Len(invoked[idx][2]))
    /\ [][(/\ pc = "invoke" /\ pc' # "invoke" /\ idx <= Len(handlers)
           /\ strong[handlers[idx]] > 0 /\ ~poisoned[handlers[idx]])
          => IF arity[handlers[idx]] = Len(params[idx])
             THEN pc' = "body" /\ invoked' = Append(invoked, <<handlers[idx], params[idx]>>)
             ELSE pc' = "done" /\ result' = ParamMismatch /\ invoked' = invoked]_vars
    /\ [][(pc = "done" /\ result = ParamMismatch)
          => (invoked' = invoked \/ (pc' = "idle" /\ invoked' = <<>>))]_vars

\* The handler at the second of three positions was replaced after the
\* shape check; the first was invoked, the second and third were not.
C20_Witness ==
    /\ pc = "done" /\ result = ParamMismatch
    /\ idx = 2 /\ Len(handlers) = 3 /\ Len(invoked) = 1
    /\ arity[handlers[2]] # Len(params[2])

====
